---- MODULE Spec2Model ----
(***************************************************************************)
(* A model of the kvs log-structured key-value store: KvStore (kvstore.rs) *)
(* over the segmented write-ahead log Wal (log.rs).                        *)
(*                                                                         *)
(* Segment files are modelled byte by byte.  A byte is a number 0..255, a   *)
(* String is the sequence of its bytes, a segment name is a number (the    *)
(* UUIDv7 names are modelled by a counter, so that names sort in creation   *)
(* order), and the directory is a function from names to file contents.    *)
(***************************************************************************)
EXTENDS Integers, Sequences, FiniteSets, TLC

\* ---------------------------------------------------------------- bounds

\* Mutating operations (set, remove) in one behaviour.
MaxOps == 4

\* The same, in the behaviours where the process may end abruptly.
MaxCrashOps == 3

\* Length of the long value; with the header and a one-byte key it makes a
\* record that alone reaches SEGMENT_SIZE.
BigLen == 112

\* ---------------------------------------------------- program constants

\* Wal::SEGMENT_SIZE
SEGMENT_SIZE == 128

\* std::mem::size_of::<usize>() on a 64-bit host
WORD == 8

\* KvStore::COMPACTION_THRESHOLD = 0.7, as the fraction ThresholdNum / ThresholdDen
ThresholdNum == 7
ThresholdDen == 10

\* ------------------------------------------------------------ inputs

Rep(b, n) == [i \in 1..n |-> b]

K1 == <<1>>
K2 == <<2, 2>>
V1 == <<7>>
V2 == Rep(8, BigLen)
EmptyStr == << >>

Keys == {K1, K2}
Values == {V1, V2}

\* ------------------------------------------------------- byte encoding

\* Decoded sizes saturate here: every size >= SizeCap is past the end of every
\* file of the model, and all such sizes behave alike.
SizeCap == 1024 * 1024

Min(a, b) == IF a < b THEN a ELSE b

Max(a, b) == IF a > b THEN a ELSE b

\* usize::to_ne_bytes on a little-endian host: n bytes, least significant first.
RECURSIVE ToNeBytes(_, _)
ToNeBytes(x, n) == IF n = 0 THEN << >> ELSE <<x % 256>> \o ToNeBytes(x \div 256, n - 1)

\* usize::from_ne_bytes on a little-endian host (saturating at SizeCap).
RECURSIVE FromNeBytes(_)
FromNeBytes(bs) ==
  IF bs = << >> THEN 0
  ELSE LET hi == FromNeBytes(Tail(bs))
       IN  IF hi >= SizeCap \div 256 THEN SizeCap ELSE Min(SizeCap, bs[1] + 256 * hi)

\* The bytes Wal::write appends for one record: ksz, vsz, key, value.
RecordBytes(k, v, mode) ==
  LET vsz == IF mode = "SET" THEN Len(v) ELSE 0
  IN  ToNeBytes(Len(k), WORD) \o ToNeBytes(vsz, WORD) \o k
        \o (IF vsz > 0 THEN v ELSE << >>)

\* FileExt::read_exact_at: n bytes at offset off (0-based), or UnexpectedEof.
ReadExactAt(bytes, off, n) ==
  IF n = 0 THEN [ok |-> TRUE, buf |-> << >>]
  ELSE IF off + n <= Len(bytes) THEN [ok |-> TRUE, buf |-> SubSeq(bytes, off + 1, off + n)]
  ELSE [ok |-> FALSE, buf |-> << >>]

\* ------------------------------------------------------------ the index

EmptyMap == [k \in {} |-> 0]

MapInsert(m, k, ve) == [x \in DOMAIN m \cup {k} |-> IF x = k THEN ve ELSE m[x]]

MapRemove(m, k) == [x \in DOMAIN m \ {k} |-> m[x]]

ValueEntry(fid, vsz, vpos) == [file_id |-> fid, vsz |-> vsz, vpos |-> vpos]

\* ------------------------------------------------------------ directory

\* OpenOptions::new().create(true).append(true).read(true).open(..): the file
\* exists afterwards, empty if it did not exist.
OpenLogFile(d, fid) ==
  IF fid \in DOMAIN d THEN d ELSE [x \in DOMAIN d \cup {fid} |-> IF x = fid THEN << >> ELSE d[x]]

RemoveFile(d, fid) == [x \in DOMAIN d \ {fid} |-> d[x]]

SetMin(S) == CHOOSE x \in S : \A y \in S : x <= y

RECURSIVE SortedSeq(_)
SortedSeq(S) == IF S = {} THEN << >> ELSE <<SetMin(S)>> \o SortedSeq(S \ {SetMin(S)})

RECURSIVE Reverse(_)
Reverse(q) == IF q = << >> THEN << >> ELSE Append(Reverse(Tail(q)), Head(q))

\* Mutant of SearchLogFiles: the names are not sorted into creation order (here
\* they come newest first).
SearchLogFiles_Unsorted(d) == Reverse(SortedSeq(DOMAIN d))

\* Wal::search_log_files: the names in the directory, sorted.
SearchLogFiles(d) == SortedSeq(DOMAIN d)

\* -------------------------------------------------------------- the log

\* Wal::read_size: one usize at offset off.
ReadSize(bytes, off) ==
  LET r == ReadExactAt(bytes, off, WORD)
  IN  [ok |-> r.ok, size |-> IF r.ok THEN FromNeBytes(r.buf) ELSE 0, offset |-> off + WORD]

\* Wal::read: the header and the key of the record at offset off.  On success
\* offset is the position of the value payload.  The only failure the model has
\* is UnexpectedEof (all bytes written are ASCII, so from_utf8 succeeds).
WalRead(bytes, off) ==
  LET ksz == ReadSize(bytes, off)
      vsz == ReadSize(bytes, ksz.offset)
      key == ReadExactAt(bytes, vsz.offset, ksz.size)
  IN  IF ~ksz.ok \/ ~vsz.ok \/ ~key.ok
      THEN [ok |-> FALSE, key |-> << >>, size |-> 0, offset |-> off]
      ELSE [ok |-> TRUE, key |-> key.buf, size |-> vsz.size,
            offset |-> vsz.offset + ksz.size]

\* Mutant of LoadedEntry: the entry is built after the cursor has skipped the
\* value.
LoadedEntry_AfterSkip(fid, size, offset) == ValueEntry(fid, size, offset + size)

\* The index entry load_log_file inserts for a SET record whose payload starts
\* at offset.
LoadedEntry(fid, size, offset) == ValueEntry(fid, size, offset)

\* Mutant of LoadLogFile: an UnexpectedEof inside a record (anywhere but at the
\* very end of the file) is returned as an error.
RECURSIVE LoadLogFile_EofIsError(_, _, _, _, _)
LoadLogFile_EofIsError(fid, bytes, off, m, count) ==
  LET r == WalRead(bytes, off)
  IN  IF ~r.ok THEN [map |-> m, count |-> count, ok |-> off >= Len(bytes)]
      ELSE IF r.size = 0
           THEN LoadLogFile_EofIsError(fid, bytes, r.offset, MapRemove(m, r.key), count + 1)
           ELSE LoadLogFile_EofIsError(fid, bytes, r.offset + r.size,
                                       MapInsert(m, r.key, LoadedEntry(fid, r.size, r.offset)),
                                       count + 1)

\* Wal::load_log_file: replays one segment into the index m from offset off;
\* UnexpectedEof, the only error the model has, ends the segment normally (ok).
RECURSIVE LoadLogFile(_, _, _, _, _)
LoadLogFile(fid, bytes, off, m, count) ==
  LET r == WalRead(bytes, off)
  IN  IF ~r.ok THEN [map |-> m, count |-> count, ok |-> TRUE]
      ELSE IF r.size = 0
           THEN LoadLogFile(fid, bytes, r.offset, MapRemove(m, r.key), count + 1)
           ELSE LoadLogFile(fid, bytes, r.offset + r.size,
                            MapInsert(m, r.key, LoadedEntry(fid, r.size, r.offset)),
                            count + 1)

\* Wal::replay: every segment of fs in order; total is the value it returns, and
\* an error of load_log_file ends it (ok = FALSE).
RECURSIVE WalReplay(_, _, _, _)
WalReplay(fs, d, m, total) ==
  IF fs = << >> THEN [map |-> m, total |-> total, ok |-> TRUE]
  ELSE LET r == LoadLogFile(Head(fs), d[Head(fs)], 0, m, 0)
       IN  IF r.ok THEN WalReplay(Tail(fs), d, r.map, total + r.count)
           ELSE [map |-> m, total |-> total, ok |-> FALSE]

\* Mutant of CreateLogFileIfNeeded: the size of the last segment is not compared
\* with SEGMENT_SIZE, so a write never rolls over.
CreateLogFileIfNeeded_NoRollover(fs, d, nid) ==
  IF fs = << >>
  THEN [files |-> <<nid>>, disk |-> d, nextId |-> nid + 1]
  ELSE [files |-> fs, disk |-> OpenLogFile(d, fs[Len(fs)]), nextId |-> nid]

\* Wal::create_log_file_if_needed: the segment list (and directory, name
\* counter) after the rollover decision.
CreateLogFileIfNeeded(fs, d, nid) ==
  IF fs = << >>
  THEN [files |-> <<nid>>, disk |-> d, nextId |-> nid + 1]
  ELSE LET last == fs[Len(fs)]
           d1 == OpenLogFile(d, last)
       IN  IF Len(d1[last]) >= SEGMENT_SIZE
           THEN [files |-> Append(fs, nid), disk |-> d1, nextId |-> nid + 1]
           ELSE [files |-> fs, disk |-> d1, nextId |-> nid]

\* Mutant of WriteVpos: the position is taken before the key is written.
WriteVpos_BeforeKey(len, k) == len + 2 * WORD

\* The vpos Wal::write returns: the file length once ksz, vsz and the key are
\* written.
WriteVpos(len, k) == len + 2 * WORD + Len(k)

\* Mutant of WalWritePrefix: the record goes to the first segment of the list
\* (self.files.first() for self.files.last()).
WalWritePrefix_FirstSegment(fs, d, nid, k, v, mode, n) ==
  LET c == CreateLogFileIfNeeded(fs, d, nid)
      cur == c.files[1]
      d2 == OpenLogFile(c.disk, cur)
      rec == RecordBytes(k, v, mode)
      vsz == IF mode = "SET" THEN Len(v) ELSE 0
  IN  [files |-> c.files,
       nextId |-> c.nextId,
       disk |-> [d2 EXCEPT ![cur] = @ \o SubSeq(rec, 1, n)],
       ve |-> ValueEntry(cur, vsz, WriteVpos(Len(d2[cur]), k))]

\* Wal::write, appending the first n bytes of the record (n = the record's
\* length for a write that completes).
WalWritePrefix(fs, d, nid, k, v, mode, n) ==
  LET c == CreateLogFileIfNeeded(fs, d, nid)
      cur == c.files[Len(c.files)]
      d2 == OpenLogFile(c.disk, cur)
      rec == RecordBytes(k, v, mode)
      vsz == IF mode = "SET" THEN Len(v) ELSE 0
  IN  [files |-> c.files,
       nextId |-> c.nextId,
       disk |-> [d2 EXCEPT ![cur] = @ \o SubSeq(rec, 1, n)],
       ve |-> ValueEntry(cur, vsz, WriteVpos(Len(d2[cur]), k))]

\* Wal::write.
WalWrite(fs, d, nid, k, v, mode) ==
  WalWritePrefix(fs, d, nid, k, v, mode, Len(RecordBytes(k, v, mode)))

\* Wal::read_value: vsz bytes at vpos of the entry's segment.
ReadValue(d, ve) ==
  LET d1 == OpenLogFile(d, ve.file_id)
      r == ReadExactAt(d1[ve.file_id], ve.vpos, ve.vsz)
  IN  [ok |-> r.ok, val |-> r.buf, disk |-> d1]

\* ------------------------------------------------------------ the store

Some(v) == [tag |-> "Some", val |-> v]
None == [tag |-> "None", val |-> << >>]
Ok == [tag |-> "Ok", val |-> << >>]
Err == [tag |-> "Err", val |-> << >>]
KeyNotFound == [tag |-> "KeyNotFound", val |-> << >>]

\* KvStore::get, as a function of the index and the directory.
KvGet(m, d, k) ==
  IF k \notin DOMAIN m THEN None
  ELSE IF m[k].vsz > 0
       THEN LET r == ReadValue(d, m[k]) IN IF r.ok THEN Some(r.val) ELSE Err
       ELSE None

\* Mutant of CompactNeeded: the comparison is turned round (>= for <=).
CompactNeeded_Inverted(len, ops) ==
  ops # 0 /\ ThresholdDen * len >= ThresholdNum * ops

\* KvStore::compact_if_needed's condition, map.len() as f32 / ops_count as f32
\* <= 0.7: a division by zero gives +inf or NaN, and both compare false.
CompactNeeded(len, ops) ==
  ops # 0 /\ ThresholdDen * len <= ThresholdNum * ops

\* ---------------------------------------------------------------- state

VARIABLES
  disk,       \* the .log directory: segment name -> bytes of the file
  files,      \* Wal.files
  map,        \* KvStore.map: key -> ValueEntry
  ops_count,  \* KvStore.ops_count
  nextId,     \* the next segment name generate_log_file_name returns
  pc,         \* "idle" (between operations), "rewrite" / "delete" (inside
              \* Wal::compact, called from set), "closed" (no process)
  before,     \* Wal::compact: old segments still to delete
  todo,       \* Wal::compact: keys the iteration over the index has not visited
  ret,        \* what the last operation returned
  lastOp,     \* the last operation called
  nops,       \* mutating operations called so far
  budget,     \* mutating operations the behaviour may call
  model,      \* the store the completed operations describe: key -> value
  snap,       \* the index and every key's get result when the process ended
  replayed,   \* the count Wal::replay returned at the last open
  appended,   \* records appended by set and remove since the last open
  compacted,  \* whether the last set or remove ran Wal::compact
  segRecs,    \* the records each segment holds: name -> sequence of records
  torn,       \* crash history: "none"; "cut" (a partial record ends the last
              \* segment) or "whole" (its last record is gone entirely); after the
              \* next open "reopened" / "reopenedWhole"; "extended" once a record
              \* was appended after "reopened"; "again" after the open that
              \* follows; "done" afterwards; "midCompact" (the process ended
              \* inside Wal::compact) and "midReopened" after the next open
  churn,      \* the workload of this process so far: "fresh" (no set or remove
              \* yet), "same" (only sets, all of .key), or "other"
  cpre,       \* when the last set ran Wal::compact: every key's get result and
              \* the segments of the directory just before the compaction began
  trigLen     \* the most live keys at which a set of this process compacted

vars == <<disk, files, map, ops_count, nextId, pc, before, todo, ret, lastOp,
          nops, budget, model, snap, replayed, appended, compacted, segRecs, torn,
          churn, cpre, trigLen>>

EmptyDisk == [f \in {} |-> << >>]

GetAll(m, d) == [k \in Keys |-> KvGet(m, d, k)]

\* What get returns in the store that `model` describes.
Expected(mdl, k) == IF k \in DOMAIN mdl THEN Some(mdl[k]) ELSE None

Rec(k, v, mode) == [key |-> k, val |-> v, mode |-> mode]

AddRec(sr, fid, r) ==
  [f \in DOMAIN sr \cup {fid} |-> IF f = fid
                                    THEN (IF f \in DOMAIN sr THEN sr[f] ELSE << >>) \o <<r>>
                                    ELSE sr[f]]

NoPre == [gets |-> GetAll(EmptyMap, EmptyDisk), segs |-> {}]

\* The workload after one more set of key k.
ChurnAfterSet(k) ==
  IF churn.st = "fresh" \/ (churn.st = "same" /\ churn.key = k)
  THEN [st |-> "same", key |-> k]
  ELSE [st |-> "other", key |-> << >>]

\* KvStore::open on an empty directory.
Fresh ==
  /\ disk = EmptyDisk
  /\ files = << >>
  /\ map = EmptyMap
  /\ ops_count = 0
  /\ nextId = 1
  /\ pc = "idle"
  /\ before = 0
  /\ todo = {}
  /\ ret = Ok
  /\ lastOp = [op |-> "open", key |-> << >>]
  /\ nops = 0
  /\ model = EmptyMap
  /\ snap = [index |-> EmptyMap, gets |-> GetAll(EmptyMap, EmptyDisk)]
  /\ replayed = 0
  /\ appended = 0
  /\ compacted = FALSE
  /\ segRecs = EmptyDisk
  /\ torn = "none"
  /\ churn = [st |-> "fresh", key |-> << >>]
  /\ cpre = NoPre
  /\ trigLen = 0

Init == Fresh /\ budget = MaxOps

\* The crash history after a set or a remove that appended a record.
TornAfterOp ==
  CASE torn \in {"reopened", "extended"} -> "extended"
    [] torn \in {"reopenedWhole", "again", "midReopened"} -> "done"
    [] OTHER -> torn

\* KvStore::get.
Get(k) ==
  /\ pc = "idle"
  /\ ret' = KvGet(map, disk, k)
  /\ lastOp' = [op |-> "get", key |-> k]
  /\ disk' = IF k \in DOMAIN map /\ map[k].vsz > 0 THEN ReadValue(disk, map[k]).disk ELSE disk
  /\ UNCHANGED <<files, map, ops_count, nextId, pc, before, todo, nops, budget, model,
                 snap, replayed, appended, compacted, segRecs, torn,
                 churn, cpre, trigLen>>

\* KvStore::set up to the call of Wal::compact; set returns here when
\* compact_if_needed does not compact.
KvSet(k, v) ==
  /\ pc = "idle"
  /\ nops < budget
  /\ LET w == WalWrite(files, disk, nextId, k, v, "SET")
         m1 == MapInsert(map, k, w.ve)
     IN  /\ disk' = w.disk
         /\ map' = m1
         /\ segRecs' = AddRec(segRecs, w.ve.file_id, Rec(k, v, "SET"))
         /\ IF CompactNeeded(Cardinality(DOMAIN m1), ops_count)
            THEN /\ files' = Append(w.files, w.nextId)
                 /\ nextId' = w.nextId + 1
                 /\ before' = Len(w.files)
                 /\ todo' = DOMAIN m1
                 /\ pc' = "rewrite"
                 /\ compacted' = TRUE
                 /\ cpre' = [gets |-> GetAll(m1, w.disk), segs |-> DOMAIN w.disk]
                 /\ trigLen' = Max(trigLen, Cardinality(DOMAIN m1))
                 /\ UNCHANGED ops_count
            ELSE /\ files' = w.files
                 /\ nextId' = w.nextId
                 /\ ops_count' = ops_count + 1
                 /\ compacted' = FALSE
                 /\ cpre' = NoPre
                 /\ UNCHANGED <<before, todo, pc, trigLen>>
  /\ ret' = Ok
  /\ lastOp' = [op |-> "set", key |-> k]
  /\ nops' = nops + 1
  /\ model' = MapInsert(model, k, v)
  /\ appended' = appended + 1
  /\ torn' = TornAfterOp
  /\ churn' = ChurnAfterSet(k)
  /\ UNCHANGED <<budget, snap, replayed>>

Set(k, v) == KvSet(k, v)

\* Mutant of CompactRewrite: an old segment is removed as soon as one key has
\* been rewritten.
CompactRewrite_DeleteEarly(k) ==
  /\ pc = "rewrite"
  /\ k \in todo
  /\ LET r == ReadValue(disk, map[k])
         w == WalWrite(files, r.disk, nextId, k, r.val, "SET")
     IN  IF r.ok
         THEN /\ disk' = IF before > 0 THEN RemoveFile(w.disk, Head(files)) ELSE w.disk
              /\ files' = IF before > 0 THEN Tail(w.files) ELSE w.files
              /\ before' = IF before > 0 THEN before - 1 ELSE 0
              /\ nextId' = w.nextId
              /\ map' = [map EXCEPT ![k] = w.ve]
              /\ segRecs' = AddRec(segRecs, w.ve.file_id, Rec(k, r.val, "SET"))
              /\ todo' = todo \ {k}
              /\ pc' = IF todo = {k} THEN "delete" ELSE "rewrite"
              /\ UNCHANGED ret
         ELSE /\ disk' = r.disk
              /\ pc' = "idle"
              /\ ret' = Err
              /\ before' = 0
              /\ todo' = {}
              /\ UNCHANGED <<files, nextId, map, segRecs>>
  /\ UNCHANGED <<ops_count, lastOp, nops, budget, model, snap, replayed, appended, compacted, torn,
                 churn, cpre, trigLen>>

\* Wal::compact, one turn of its loop over the index: read the value, append a
\* SET record, point the entry at it.  A failed read_value ends compact, and
\* with it set, with the error.
CompactRewrite(k) ==
  /\ pc = "rewrite"
  /\ k \in todo
  /\ LET r == ReadValue(disk, map[k])
         w == WalWrite(files, r.disk, nextId, k, r.val, "SET")
     IN  IF r.ok
         THEN /\ disk' = w.disk
              /\ files' = w.files
              /\ nextId' = w.nextId
              /\ map' = [map EXCEPT ![k] = w.ve]
              /\ segRecs' = AddRec(segRecs, w.ve.file_id, Rec(k, r.val, "SET"))
              /\ todo' = todo \ {k}
              /\ pc' = IF todo = {k} THEN "delete" ELSE "rewrite"
              /\ UNCHANGED <<before, ret>>
         ELSE /\ disk' = r.disk
              /\ pc' = "idle"
              /\ ret' = Err
              /\ before' = 0
              /\ todo' = {}
              /\ UNCHANGED <<files, nextId, map, segRecs>>
  /\ UNCHANGED <<ops_count, lastOp, nops, budget, model, snap, replayed, appended, compacted, torn,
                 churn, cpre, trigLen>>

\* Mutant of CompactDelete: the segment is taken from the end of the list
\* (self.files.pop() for self.files.remove(0)).
CompactDelete_WrongEnd ==
  /\ pc = "delete"
  /\ before > 0
  /\ files' = SubSeq(files, 1, Len(files) - 1)
  /\ disk' = RemoveFile(disk, files[Len(files)])
  /\ segRecs' = RemoveFile(segRecs, files[Len(files)])
  /\ before' = before - 1
  /\ UNCHANGED <<map, ops_count, nextId, pc, todo, ret, lastOp, nops, budget, model,
                 snap, replayed, appended, compacted, torn,
                 churn, cpre, trigLen>>

\* Mutant of CompactDelete: the segment leaves the list but its file is not
\* removed.
CompactDelete_KeepsFile ==
  /\ pc = "delete"
  /\ before > 0
  /\ files' = Tail(files)
  /\ before' = before - 1
  /\ UNCHANGED <<disk, segRecs>>
  /\ UNCHANGED <<map, ops_count, nextId, pc, todo, ret, lastOp, nops, budget, model,
                 snap, replayed, appended, compacted, torn,
                 churn, cpre, trigLen>>

\* Mutant of CompactDelete: the old segments are removed newest first.
CompactDelete_NewestFirst ==
  /\ pc = "delete"
  /\ before > 0
  /\ files' = SubSeq(files, 1, before - 1) \o SubSeq(files, before + 1, Len(files))
  /\ disk' = RemoveFile(disk, files[before])
  /\ segRecs' = RemoveFile(segRecs, files[before])
  /\ before' = before - 1
  /\ UNCHANGED <<map, ops_count, nextId, pc, todo, ret, lastOp, nops, budget, model,
                 snap, replayed, appended, compacted, torn,
                 churn, cpre, trigLen>>

\* Wal::compact, one turn of its second loop: remove the first segment.
CompactDelete ==
  /\ pc = "delete"
  /\ before > 0
  /\ files' = Tail(files)
  /\ disk' = RemoveFile(disk, Head(files))
  /\ segRecs' = RemoveFile(segRecs, Head(files))
  /\ before' = before - 1
  /\ UNCHANGED <<map, ops_count, nextId, pc, todo, ret, lastOp, nops, budget, model,
                 snap, replayed, appended, compacted, torn,
                 churn, cpre, trigLen>>

\* Mutant of SetReturn: the counter starts again after a compaction.
SetReturn_ResetsCount ==
  /\ pc = "delete"
  /\ before = 0
  /\ ops_count' = 0
  /\ pc' = "idle"
  /\ UNCHANGED <<disk, files, map, nextId, before, todo, ret, lastOp, nops, budget, model,
                 snap, replayed, appended, compacted, segRecs, torn,
                 churn, cpre, trigLen>>

\* Wal::compact returns and set finishes: self.ops_count += 1.
SetReturn ==
  /\ pc = "delete"
  /\ before = 0
  /\ ops_count' = ops_count + 1
  /\ pc' = "idle"
  /\ UNCHANGED <<disk, files, map, nextId, before, todo, ret, lastOp, nops, budget, model,
                 snap, replayed, appended, compacted, segRecs, torn,
                 churn, cpre, trigLen>>

\* Mutant of KvRemovePresent: the key is looked up but its entry is not taken
\* out of the index.
KvRemovePresent_KeepsEntry(k) ==
  /\ k \in DOMAIN map
  /\ nops < budget
  /\ LET w == WalWrite(files, disk, nextId, k, EmptyStr, "RM")
     IN  /\ disk' = w.disk
         /\ files' = w.files
         /\ nextId' = w.nextId
         /\ segRecs' = AddRec(segRecs, w.ve.file_id, Rec(k, EmptyStr, "RM"))
  /\ map' = map
  /\ ops_count' = ops_count + 1
  /\ ret' = Ok
  /\ nops' = nops + 1
  /\ model' = MapRemove(model, k)
  /\ appended' = appended + 1
  /\ torn' = TornAfterOp

\* KvStore::remove of a key the index holds.
KvRemovePresent(k) ==
  /\ k \in DOMAIN map
  /\ nops < budget
  /\ LET w == WalWrite(files, disk, nextId, k, EmptyStr, "RM")
     IN  /\ disk' = w.disk
         /\ files' = w.files
         /\ nextId' = w.nextId
         /\ segRecs' = AddRec(segRecs, w.ve.file_id, Rec(k, EmptyStr, "RM"))
  /\ map' = MapRemove(map, k)
  /\ ops_count' = ops_count + 1
  /\ ret' = Ok
  /\ nops' = nops + 1
  /\ model' = MapRemove(model, k)
  /\ appended' = appended + 1
  /\ torn' = TornAfterOp

\* Mutant of KvRemoveAbsent: the tombstone is appended before the index is
\* consulted.
KvRemoveAbsent_Tombstone(k) ==
  /\ k \notin DOMAIN map
  /\ nops < budget
  /\ LET w == WalWrite(files, disk, nextId, k, EmptyStr, "RM")
     IN  /\ disk' = w.disk
         /\ files' = w.files
         /\ nextId' = w.nextId
         /\ segRecs' = AddRec(segRecs, w.ve.file_id, Rec(k, EmptyStr, "RM"))
  /\ ret' = KeyNotFound
  /\ nops' = nops + 1
  /\ UNCHANGED <<map, ops_count, model, appended, torn>>

\* KvStore::remove of a key the index does not hold.
KvRemoveAbsent(k) ==
  /\ k \notin DOMAIN map
  /\ ret' = KeyNotFound
  /\ UNCHANGED <<disk, files, map, ops_count, nextId, nops, model, appended, segRecs, torn>>

\* KvStore::remove.
Remove(k) ==
  /\ pc = "idle"
  /\ \/ KvRemovePresent(k)
     \/ KvRemoveAbsent(k)
  /\ lastOp' = [op |-> "remove", key |-> k]
  /\ compacted' = FALSE
  /\ churn' = IF k \in DOMAIN map THEN [st |-> "other", key |-> << >>] ELSE churn
  /\ cpre' = IF k \in DOMAIN map THEN NoPre ELSE cpre
  /\ UNCHANGED <<pc, before, todo, budget, snap, replayed, trigLen>>

\* The process ends between two operations; nothing of it is left but the
\* directory.
Close ==
  /\ pc = "idle"
  /\ pc' = "closed"
  /\ snap' = [index |-> map, gets |-> GetAll(map, disk)]
  /\ files' = << >>
  /\ map' = EmptyMap
  /\ ops_count' = 0
  /\ ret' = Ok
  /\ lastOp' = [op |-> "close", key |-> << >>]
  /\ compacted' = FALSE
  /\ churn' = [st |-> "other", key |-> << >>]
  /\ cpre' = IF torn = "midReopened" THEN cpre ELSE NoPre
  /\ trigLen' = 0
  /\ UNCHANGED <<disk, nextId, before, todo, nops, budget, model, replayed, appended,
                 segRecs, torn>>

\* The ops_count KvStore::open leaves, given the count Wal::replay returned:
\* line 22 drops that count.
OpenOpsCount(total) == 0

\* KvStore::open: Wal::open lists the segments, Wal::replay rebuilds the index.
Open ==
  /\ pc = "closed"
  /\ LET fs == SearchLogFiles(disk)
         r == WalReplay(fs, disk, EmptyMap, 0)
     IN  IF r.ok
         THEN /\ files' = fs
              /\ map' = r.map
              /\ ops_count' = OpenOpsCount(r.total)
              /\ replayed' = r.total
              /\ pc' = "idle"
              /\ ret' = Ok
         ELSE /\ ret' = Err
              /\ UNCHANGED <<files, map, ops_count, replayed, pc>>
  /\ appended' = 0
  /\ lastOp' = [op |-> "open", key |-> << >>]
  /\ torn' = CASE torn = "cut" -> "reopened"
               [] torn = "whole" -> "reopenedWhole"
               [] torn = "extended" -> "again"
               [] torn = "midCompact" -> "midReopened"
               [] OTHER -> torn
  /\ UNCHANGED <<disk, nextId, before, todo, nops, budget, model, snap, compacted, segRecs,
                 churn, cpre, trigLen>>

Next ==
  \/ \E k \in Keys, v \in Values : Set(k, v)
  \/ \E k \in Keys : CompactRewrite(k)
  \/ CompactDelete
  \/ SetReturn
  \/ \E k \in Keys : Remove(k)
  \/ \E k \in Keys : Get(k)
  \/ Close
  \/ Open

Spec == Init /\ [][Next]_vars

\* ---------------------------------------------------------------- crash

SetMax(S) == CHOOSE x \in S : \A y \in S : y <= x

\* The store a sequence of records describes, starting from mdl.
RECURSIVE ApplyRecs(_, _)
ApplyRecs(mdl, rs) ==
  IF rs = << >> THEN mdl
  ELSE ApplyRecs(IF Head(rs).mode = "SET" THEN MapInsert(mdl, Head(rs).key, Head(rs).val)
                                          ELSE MapRemove(mdl, Head(rs).key),
                 Tail(rs))

RECURSIVE ApplySegs(_, _, _)
ApplySegs(mdl, fs, sr) ==
  IF fs = << >> THEN mdl ELSE ApplySegs(ApplyRecs(mdl, sr[Head(fs)]), Tail(fs), sr)

\* The store the records of all segments describe, in segment order.
AbstractState(sr) == ApplySegs(EmptyMap, SortedSeq(DOMAIN sr), sr)

\* The last segment loses its last t bytes, 1 <= t <= size of its final record:
\* what a process that ends inside the Wal::write of that record leaves behind
\* (t < size: a partial record; t = size: none of it).  From here on `model` is
\* the store described by the records before the truncated one.
Truncate(t) ==
  /\ pc = "closed"
  /\ torn = "none"
  /\ disk # EmptyDisk
  /\ LET last == SetMax(DOMAIN disk)
     IN  /\ last \in DOMAIN segRecs
         /\ segRecs[last] # << >>
         /\ LET r == segRecs[last][Len(segRecs[last])]
                size == Len(RecordBytes(r.key, r.val, r.mode))
            IN  /\ t <= size
                /\ disk' = [disk EXCEPT ![last] = SubSeq(@, 1, Len(@) - t)]
                /\ segRecs' = [segRecs EXCEPT ![last] = SubSeq(@, 1, Len(@) - 1)]
                /\ torn' = IF t < size THEN "cut" ELSE "whole"
                /\ lastOp' = [op |-> "truncate", key |-> r.key]
  /\ model' = AbstractState(segRecs')
  /\ UNCHANGED <<files, map, ops_count, nextId, pc, before, todo, ret, nops, budget, snap,
                 replayed, appended, compacted, churn, cpre, trigLen>>

\* The largest record of the model: header, longest key, longest value.
MaxRecord == 2 * WORD + 2 + Max(BigLen, 1)

NextCrash ==
  \/ Next
  \/ \E t \in 1..MaxRecord : Truncate(t)

InitCrash == Fresh /\ budget = MaxCrashOps

SpecCrash == InitCrash /\ [][NextCrash]_vars

\* --------------------------------------------------------------- claims

\* An index entry names a byte range inside an existing segment that holds v.
EntryHolds(d, ve, v) ==
  /\ ve.file_id \in DOMAIN d
  /\ ve.vpos + ve.vsz <= Len(d[ve.file_id])
  /\ SubSeq(d[ve.file_id], ve.vpos + 1, ve.vpos + ve.vsz) = v

\* C1: between operations, get(k) returns the value of the most recent set of k
\* that no later remove of k follows, and absent when there is none; a get that
\* was called returned just that.
C1_LastWriterWins ==
  pc = "idle" =>
    /\ \A k \in Keys : KvGet(map, disk, k) = Expected(model, k)
    /\ lastOp.op = "get" => ret = Expected(model, lastOp.key)

\* A set has just compacted, the rewrite rolled over, and a key is live.
C1_Witness ==
  /\ pc = "idle"
  /\ lastOp.op = "set"
  /\ compacted
  /\ Len(files) >= 2
  /\ KvGet(map, disk, K1) = Some(V2)

\* C2: right after a reopen, every key's get result is what it was when the
\* process ended.
C2_Durability ==
  (pc = "idle" /\ lastOp.op = "open") => GetAll(map, disk) = snap.gets

\* A store reopened over two segments, with a live key and a removed key.
C2_Witness ==
  /\ pc = "idle"
  /\ lastOp.op = "open"
  /\ Len(files) >= 2
  /\ \E k \in Keys : KvGet(map, disk, k) # None
  /\ \E f \in DOMAIN segRecs : \E i \in 1..Len(segRecs[f]) : segRecs[f][i].mode = "RM"

\* C3: right after a reopen, the rebuilt index is the index the process held
\* when it ended: the same keys, each with the same (file_id, vpos, vsz).
C3_ReplayEqualsInMemory ==
  (pc = "idle" /\ lastOp.op = "open") => map = snap.index

\* A reopen that rebuilt two entries, one in a segment that is not the first.
C3_Witness ==
  /\ pc = "idle"
  /\ lastOp.op = "open"
  /\ Cardinality(DOMAIN map) = 2
  /\ \E k \in DOMAIN map : map[k].file_id # files[1]

\* C4: remove of a key the index does not hold returns KeyNotFound and changes
\* neither the directory, nor the segment list, nor the index, nor ops_count.
C4_RemoveAbsentUnchanged ==
  [][(pc = "idle" /\ lastOp'.op = "remove" /\ lastOp'.key \notin DOMAIN map)
       => (ret' = KeyNotFound /\ UNCHANGED <<disk, files, map, ops_count, segRecs>>)]_vars

\* remove has just returned KeyNotFound on a store whose log holds records.
C4_Witness ==
  /\ pc = "idle"
  /\ lastOp.op = "remove"
  /\ ret = KeyNotFound
  /\ disk # EmptyDisk
  /\ map # EmptyMap

\* C7: between operations (right after replay included) every index entry names
\* an existing segment and a byte range inside it that holds the value last
\* written for the key.
C7_IndexInvariant ==
  pc = "idle" =>
    \A k \in DOMAIN map : k \in DOMAIN model /\ EntryHolds(disk, map[k], model[k])

\* A reopened store whose two entries lie in different segments.
C7_Witness ==
  /\ pc = "idle"
  /\ lastOp.op = "open"
  /\ Cardinality(DOMAIN map) = 2
  /\ map[K1].file_id # map[K2].file_id

\* C8: inside a compaction every index entry names an existing segment that
\* holds the key's value, and while keys are still being rewritten every
\* segment that existed when the compaction began is still there.
C8_CompactionOrdering ==
  pc \in {"rewrite", "delete"} =>
    /\ \A k \in DOMAIN map : k \in DOMAIN model /\ EntryHolds(disk, map[k], model[k])
    /\ pc = "rewrite" => \A i \in 1..before : files[i] \in DOMAIN disk

\* Half-way through the rewrite of two keys: one entry already points into the
\* new segment, the other still into an old one.
C8_Witness ==
  /\ pc = "rewrite"
  /\ Cardinality(DOMAIN map) = 2
  /\ \E k \in todo : \E i \in 1..before : map[k].file_id = files[i]
  /\ \E k \in DOMAIN map \ todo : \A i \in 1..before : map[k].file_id # files[i]

\* C9: between operations ops_count is the number of records replay decoded
\* at open plus the number of records set and remove appended since.
C9_OpsCountAccounting ==
  pc = "idle" => ops_count = replayed + appended

\* C10: a set or a successful remove runs compaction exactly when, after it,
\* live_keys / ops_count <= 0.7.
C10_CompactionTrigger ==
  (pc = "idle" /\ lastOp.op \in {"set", "remove"} /\ ret = Ok)
    => (compacted <=> CompactNeeded(Cardinality(DOMAIN map), ops_count))

\* C5: after the last segment lost 1 <= t <= size-of-its-final-record bytes,
\* open succeeds and every get returns what the records before the truncated one
\* describe.
C5_TailTolerance ==
  (pc = "idle" /\ torn \in {"reopened", "reopenedWhole"}) =>
    /\ lastOp.op = "open" => ret = Ok
    /\ \A k \in Keys : KvGet(map, disk, k) = Expected(model, k)

\* C6: a partial record was left at the end of the last segment, the store was
\* reopened, appended further records, and was reopened again: every get
\* returns what the completed operations describe.
C6_TornTailIgnored ==
  (pc = "idle" /\ torn = "again") =>
    \A k \in Keys : KvGet(map, disk, k) = Expected(model, k)

\* The bytes of all segment files together.
RECURSIVE TotalSize(_)
TotalSize(d) ==
  IF DOMAIN d = {} THEN 0
  ELSE LET f == SetMin(DOMAIN d) IN Len(d[f]) + TotalSize(RemoveFile(d, f))

RECURSIVE RecsSize(_)
RecsSize(rs) ==
  IF rs = << >> THEN 0
  ELSE Len(RecordBytes(Head(rs).key, Head(rs).val, Head(rs).mode)) + RecsSize(Tail(rs))

LastOf(q) == q[Len(q)]

\* A set that ran Wal::compact has just returned.
AfterCompaction == pc = "idle" /\ lastOp.op = "set" /\ compacted /\ ret = Ok

\* C11: in a workload of sets of one key on a fresh store, once a set has
\* triggered compaction, the segment files together hold, after every set, no
\* more than one record of that key with its current value.
C11_SpaceBound ==
  (pc = "idle" /\ churn.st = "same" /\ trigLen > 0) =>
    TotalSize(disk) <= Len(RecordBytes(churn.key, model[churn.key], "SET"))

\* The fourth set of the same key, with the long value.
C11_Witness ==
  /\ pc = "idle"
  /\ churn.st = "same"
  /\ trigLen > 0
  /\ nops = 4
  /\ model[churn.key] = V2

\* The size of the last record of segment f.
LastRecLen(f) ==
  IF f \in DOMAIN segRecs /\ segRecs[f] # << >>
  THEN LET r == LastOf(segRecs[f]) IN Len(RecordBytes(r.key, r.val, r.mode))
  ELSE 0

\* The step appends one record: a set or a successful remove, or one turn of
\* the rewrite loop of Wal::compact.
WroteOne ==
  \/ pc = "idle" /\ pc' # "closed" /\ nops' = nops + 1
  \/ pc = "rewrite" /\ todo' # todo

\* The segments Wal::write allocated in the step (the one Wal::compact pushes
\* when a set begins to compact is not one of them).
Rolled == nextId' - nextId - (IF pc = "idle" /\ pc' = "rewrite" THEN 1 ELSE 0)

\* C13: a write rolls over to a new segment exactly when the last segment's
\* size is >= SEGMENT_SIZE before the write, and in every state every segment
\* without its last record is smaller than SEGMENT_SIZE.
C13_RolloverBound ==
  /\ [](\A f \in DOMAIN disk : Len(disk[f]) - LastRecLen(f) < SEGMENT_SIZE)
  /\ [][(WroteOne /\ files # << >>) =>
          LET last == LastOf(files)
              size == IF last \in DOMAIN disk THEN Len(disk[last]) ELSE 0
          IN  /\ Rolled \in {0, 1}
              /\ Rolled = 1 <=> size >= SEGMENT_SIZE]_vars

\* A segment larger than SEGMENT_SIZE that is not the last one: a write found
\* it full and rolled over.
C13_Witness ==
  /\ pc = "idle"
  /\ Len(files) >= 2
  /\ files[1] \in DOMAIN disk
  /\ Len(disk[files[1]]) > SEGMENT_SIZE

\* C14: when a set that compacted returns, every key's get result is what it
\* was just before the compaction began, and no segment that existed then is
\* still in the directory.
C14_CompactionPreserves ==
  AfterCompaction =>
    /\ GetAll(map, disk) = cpre.gets
    /\ DOMAIN disk \cap cpre.segs = {}

\* A compaction of two live keys that began with two segments has finished.
C14_Witness ==
  /\ AfterCompaction
  /\ Cardinality(cpre.segs) >= 2
  /\ \A k \in Keys : KvGet(map, disk, k) # None

\* C15: when a set that compacted returns, the segments hold exactly one SET
\* record for each key of the index, no tombstone, no record of another key,
\* and no other byte.
C15_OneRecordPerKey ==
  AfterCompaction =>
    /\ DOMAIN segRecs = DOMAIN disk
    /\ \A f \in DOMAIN disk :
         /\ Len(disk[f]) = RecsSize(segRecs[f])
         /\ \A i \in 1..Len(segRecs[f]) :
              segRecs[f][i].mode = "SET" /\ segRecs[f][i].key \in DOMAIN map
    /\ \A k \in DOMAIN map :
         Cardinality({p \in {<<f, i>> : f \in DOMAIN disk, i \in 1..2} :
                        p[2] <= Len(segRecs[p[1]]) /\ segRecs[p[1]][p[2]].key = k}) = 1
    /\ WalReplay(SearchLogFiles(disk), disk, EmptyMap, 0).total = Cardinality(DOMAIN map)

\* A compaction that left two keys, a removed key and a tombstone behind it.
C15_Witness ==
  /\ AfterCompaction
  /\ Cardinality(DOMAIN map) = 2
  /\ Len(files) = 2

\* C16: within one process ops_count never decreases (compaction does not
\* reset it), and once a set has triggered compaction every later set that
\* leaves no more live keys than that one triggers compaction too.
C16_CountNeverReset ==
  [][/\ (pc # "closed" /\ pc' # "closed") => ops_count' >= ops_count
     /\ (pc = "idle" /\ lastOp'.op = "set" /\ nops' = nops + 1
           /\ trigLen > 0 /\ Cardinality(DOMAIN map') <= trigLen) => compacted']_vars

\* A second compacting set has returned, its counter above the first one's.
C16_Witness ==
  /\ AfterCompaction
  /\ ops_count = 4
  /\ trigLen = 1

\* The segment the step's record goes to.
AppendTarget ==
  IF pc = "idle" /\ pc' = "rewrite" THEN files'[Len(files') - 1] ELSE LastOf(files')

\* C17: a step changes the bytes of no segment but the last of the segment
\* list, and only by appending; a segment disappears only in the delete loop of
\* Wal::compact; a new segment goes to the end of the list and its name sorts
\* after every existing one.
C17_SingleAppendTarget ==
  [][/\ \A f \in DOMAIN disk \cap DOMAIN disk' :
          disk'[f] # disk[f] =>
            /\ f = AppendTarget
            /\ Len(disk'[f]) > Len(disk[f])
            /\ SubSeq(disk'[f], 1, Len(disk[f])) = disk[f]
     /\ \A f \in DOMAIN disk' \ DOMAIN disk :
          f = AppendTarget /\ \A g \in DOMAIN disk : g < f
     /\ DOMAIN disk \ DOMAIN disk' # {} => pc = "delete"
     /\ (pc \in {"idle", "rewrite"} /\ Len(files') > Len(files)) =>
          /\ SubSeq(files', 1, Len(files)) = files
          /\ \A i \in (Len(files) + 1)..Len(files') :
               \A g \in DOMAIN disk \cup {files[j] : j \in 1..Len(files)} : g < files'[i]]_vars

\* A record has been appended to the second of two segments, the first being
\* full.
C17_Witness ==
  /\ pc = "idle"
  /\ Len(files) = 2
  /\ \A f \in DOMAIN disk : f \in DOMAIN segRecs
  /\ Len(segRecs[files[2]]) >= 2

\* ------------------------------------------------ records past end of file

\* Short records and a process that ends inside Wal::write: the operations of
\* Next with the one-byte value, and the truncation of the last record.
NextCut ==
  \/ \E k \in Keys : Set(k, V1)
  \/ \E k \in Keys : CompactRewrite(k)
  \/ CompactDelete
  \/ SetReturn
  \/ \E k \in Keys : Remove(k)
  \/ \E k \in Keys : Get(k)
  \/ Close
  \/ Open
  \/ \E t \in 1..MaxRecord : Truncate(t)

SpecCut == InitCrash /\ [][NextCut]_vars

\* Some record of the segment, read from offset off on, has complete size
\* prefixes ksz and vsz that name a length past the end of the file; with
\* keyOnly, its key alone already runs past the end.
RECURSIVE Overlong(_, _, _)
Overlong(bytes, off, keyOnly) ==
  LET ksz == ReadSize(bytes, off)
      vsz == ReadSize(bytes, ksz.offset)
      end == vsz.offset + ksz.size + vsz.size
  IN  IF ~ksz.ok \/ ~vsz.ok THEN FALSE
      ELSE IF vsz.offset + ksz.size > Len(bytes) THEN TRUE
      ELSE IF end > Len(bytes) THEN ~keyOnly
      ELSE Overlong(bytes, end, keyOnly)

AnyOverlong(keyOnly) == \E f \in DOMAIN disk : Overlong(disk[f], 0, keyOnly)

\* An index entry whose byte range runs past the end of its segment.
EntryPastEof(ve) ==
  ve.file_id \notin DOMAIN disk \/ ve.vpos + ve.vsz > Len(disk[ve.file_id])

CrashInCompact ==
  /\ pc \in {"rewrite", "delete"}
  /\ torn = "none"
  /\ pc' = "closed"
  /\ torn' = "midCompact"
  /\ files' = << >>
  /\ map' = EmptyMap
  /\ ops_count' = 0
  /\ before' = 0
  /\ todo' = {}
  /\ ret' = Ok
  /\ lastOp' = [op |-> "crash", key |-> << >>]
  /\ compacted' = FALSE
  /\ churn' = [st |-> "other", key |-> << >>]
  /\ trigLen' = 0
  /\ UNCHANGED <<disk, nextId, nops, budget, model, snap, replayed, appended, segRecs, cpre>>

NextMid ==
  \/ Next
  \/ CrashInCompact

SpecMid == InitCrash /\ [][NextMid]_vars

\* C18: after the process ended at any step of a compaction and the directory
\* was opened again, every key's get result is what it was just before that
\* compaction began.
C18_CrashInCompactionSafe ==
  (pc = "idle" /\ torn = "midReopened") => GetAll(map, disk) = cpre.gets

\* Reopened after the process ended in the delete loop, with one of two old
\* segments removed, the other (holding a tombstone) and the new one left.
C18_Witness ==
  /\ pc = "idle"
  /\ torn = "midReopened"
  /\ Cardinality(cpre.segs) = 2
  /\ Cardinality(DOMAIN disk \cap cpre.segs) = 1
  /\ Cardinality(DOMAIN disk) = 2
  /\ \E k \in Keys : KvGet(map, disk, k) = None
  /\ \E k \in Keys : KvGet(map, disk, k) # None

\* ------------------------------------------------------ failing appends

\* Where Wal::write can return an I/O error before any byte of the record is
\* written: "probe" in create_log_file_if_needed (open or metadata of the last
\* segment), "open" in the open_log_file of write, "write" in its first
\* write_all.
IoStages == {"probe", "open", "write"}

\* The log after such a failed Wal::write: a name create_log_file_if_needed
\* pushed stays in the list, a file open_log_file created stays in the
\* directory.
WalWriteFails(fs, d, nid, stage) ==
  LET c == CreateLogFileIfNeeded(fs, d, nid)
  IN  CASE stage = "probe" -> [files |-> fs, disk |-> d, nextId |-> nid]
        [] stage = "open" -> [files |-> c.files, disk |-> c.disk, nextId |-> c.nextId]
        [] stage = "write" -> [files |-> c.files, nextId |-> c.nextId,
                               disk |-> OpenLogFile(c.disk, LastOf(c.files))]

\* KvStore::set when self.log.write fails: `?` returns before map.insert.
SetIoError(k, v, stage) ==
  /\ pc = "idle"
  /\ nops < budget
  /\ stage = "probe" => files # << >>
  /\ LET w == WalWriteFails(files, disk, nextId, stage)
     IN  /\ files' = w.files
         /\ disk' = w.disk
         /\ nextId' = w.nextId
  /\ ret' = Err
  /\ lastOp' = [op |-> "set", key |-> k]
  /\ nops' = nops + 1
  /\ compacted' = FALSE
  /\ churn' = [st |-> "other", key |-> << >>]
  /\ cpre' = NoPre
  /\ UNCHANGED <<map, ops_count, pc, before, todo, budget, model, snap, replayed, appended,
                 segRecs, torn, trigLen>>

\* KvStore::remove of a key the index holds when self.log.write fails:
\* map.remove has already run, `?` returns before ops_count += 1.
RemoveIoError(k, stage) ==
  /\ pc = "idle"
  /\ nops < budget
  /\ k \in DOMAIN map
  /\ stage = "probe" => files # << >>
  /\ map' = MapRemove(map, k)
  /\ LET w == WalWriteFails(files, disk, nextId, stage)
     IN  /\ files' = w.files
         /\ disk' = w.disk
         /\ nextId' = w.nextId
  /\ ret' = Err
  /\ lastOp' = [op |-> "remove", key |-> k]
  /\ nops' = nops + 1
  /\ compacted' = FALSE
  /\ churn' = [st |-> "other", key |-> << >>]
  /\ cpre' = NoPre
  /\ UNCHANGED <<ops_count, pc, before, todo, budget, model, snap, replayed, appended,
                 segRecs, torn, trigLen>>

NextIo ==
  \/ Next
  \/ \E k \in Keys, v \in Values, stage \in IoStages : SetIoError(k, v, stage)
  \/ \E k \in Keys, stage \in IoStages : RemoveIoError(k, stage)

SpecIo == InitCrash /\ [][NextIo]_vars

\* C19: a set or remove that returns an I/O error because its append failed
\* before any byte was written leaves the index and ops_count as they were, and
\* the index is still what a replay of the log produces.
C19_FailureAtomicity ==
  [][(pc = "idle" /\ lastOp'.op \in {"set", "remove"} /\ ret' = Err) =>
       /\ map' = map
       /\ ops_count' = ops_count
       /\ map' = WalReplay(SearchLogFiles(disk'), disk', EmptyMap, 0).map]_vars

\* ------------------------------------------------------ the empty string

\* The operations of Next, and set with the empty string as value.
NextE ==
  \/ Next
  \/ \E k \in Keys : Set(k, EmptyStr)

SpecE == Init /\ [][NextE]_vars

\* C20: between operations, for every key, get returns absent exactly when
\* remove would return KeyNotFound.
C20_PresenceAgreement ==
  pc = "idle" =>
    \A k \in Keys : (KvGet(map, disk, k) = None) <=> (k \notin DOMAIN map)

====
